---- MODULE Spec2Model ----
(***************************************************************************)
(* Gym membership pricing (gym_membership.py): the plan catalog, the       *)
(* pricing function calcular_costos, the wrapper procesar_plan_membresia   *)
(* and the console dialogue ejecutar_cli.                                  *)
(*                                                                         *)
(* Python str values are sequences of one-character strings, so that       *)
(* upper(), strip(), split(",") and int() are computed character by        *)
(* character.  Python float values are IEEE-754 doubles, kept as an exact  *)
(* integer mantissa split in limbs of 18 bits and a binary exponent.       *)
(***************************************************************************)
EXTENDS Integers, Sequences, FiniteSets, TLC

VARIABLES
    pc,                       \* "inicio"; "api" once a function of the module
                              \* was called; "cli_*" inside ejecutar_cli
    llamada,                  \* the last call of the API, with what it returned
    anterior,                 \* the call before it, when the caller repeated it
    membresia,                \* ejecutar_cli: the plan chosen
    num_miembros,             \* ejecutar_cli: the member count read
    codigos_caracteristicas,  \* ejecutar_cli: the feature codes kept
    detalle,                  \* ejecutar_cli: what calcular_costos gave
    confirmar_str,            \* ejecutar_cli: the normalised confirmation
    retorno,                  \* ejecutar_cli: the value returned
    reintentos                \* ejecutar_cli: inputs rejected and asked again

vars == <<pc, llamada, anterior, membresia, num_miembros,
          codigos_caracteristicas, detalle, confirmar_str, retorno, reintentos>>

\* ------------------------------ bounds ------------------------------ *\

\* largest numero_miembros passed to calcular_costos / procesar_plan_membresia
MaxMiembros == 4
\* longest list of feature codes enumerated exhaustively
MaxCodigos == 2
\* most rejected (re-prompted) console inputs in one run of ejecutar_cli
MaxReintentos == 2

\* ------------------------------ str --------------------------------- *\

\* None; an optional value is <<v>> when present and None when absent
None == <<>>

Minusculas == <<"a","b","c","d","e","f","g","h","i","j","k","l","m",
                "n","o","p","q","r","s","t","u","v","w","x","y","z">>
Mayusculas == <<"A","B","C","D","E","F","G","H","I","J","K","L","M",
                "N","O","P","Q","R","S","T","U","V","W","X","Y","Z">>
Digitos == <<"0","1","2","3","4","5","6","7","8","9">>

\* one character of str.upper()
UpperChar(c) ==
    IF \E i \in DOMAIN Minusculas : Minusculas[i] = c
    THEN Mayusculas[CHOOSE i \in DOMAIN Minusculas : Minusculas[i] = c]
    ELSE c

\* str.upper()
Upper(s) == [i \in DOMAIN s |-> UpperChar(s[i])]

\* the characters str.strip() removes
IsSpace(c) == c \in {" ", "\t", "\n", "\r", "\f"}

RECURSIVE LStrip(_)
LStrip(s) == IF s # <<>> /\ IsSpace(Head(s)) THEN LStrip(Tail(s)) ELSE s

RECURSIVE RStrip(_)
RStrip(s) ==
    IF s # <<>> /\ IsSpace(s[Len(s)]) THEN RStrip(SubSeq(s, 1, Len(s) - 1)) ELSE s

\* str.strip()
Strip(s) == RStrip(LStrip(s))

\* str.split(","): the pieces between commas, empty pieces included
RECURSIVE SplitComma(_, _)
SplitComma(s, actual) ==
    IF s = <<>> THEN <<actual>>
    ELSE IF Head(s) = "," THEN <<actual>> \o SplitComma(Tail(s), <<>>)
    ELSE SplitComma(Tail(s), Append(actual, Head(s)))

Split(s) == SplitComma(s, <<>>)

DigitValue(c) == (CHOOSE i \in DOMAIN Digitos : Digitos[i] = c) - 1

IsDigit(c) == \E i \in DOMAIN Digitos : Digitos[i] = c

RECURSIVE DigitsValue(_, _)
DigitsValue(s, acc) ==
    IF s = <<>> THEN acc ELSE DigitsValue(Tail(s), 10 * acc + DigitValue(Head(s)))

\* int(str): optional blanks, optional sign, decimal digits; anything else
\* raises ValueError
ParseInt(entrada) ==
    LET t == Strip(entrada)
        signo == IF t # <<>> /\ Head(t) \in {"+", "-"} THEN Head(t) ELSE ""
        cuerpo == IF signo = "" THEN t ELSE Tail(t)
    IN  IF cuerpo = <<>> \/ \E i \in DOMAIN cuerpo : ~IsDigit(cuerpo[i])
        THEN [raises |-> TRUE, value |-> 0]
        ELSE [raises |-> FALSE,
              value |-> IF signo = "-" THEN 0 - DigitsValue(cuerpo, 0)
                        ELSE DigitsValue(cuerpo, 0)]

\* ------------------------------ float ------------------------------- *\

LimbBits == 18
LimbBase == 2^LimbBits

\* the double nearest to the literal 0.15: 0x13333333333333 * 2^-55
Double015 == [m |-> <<209715, 52428, 78643>>, e |-> 55]
\* the double nearest to the literal 0.10: 0x1999999999999A * 2^-56
Double010 == [m |-> <<104858, 157286, 104857>>, e |-> 56]

RECURSIVE BitLen(_)
BitLen(x) == IF x = 0 THEN 0 ELSE 1 + BitLen(x \div 2)

\* carry propagation: limbs 1..3 below LimbBase, limb 4 takes the rest
Normalizar(l) ==
    LET p1 == l[1]
        p2 == l[2] + (p1 \div LimbBase)
        p3 == l[3] + (p2 \div LimbBase)
        p4 == l[4] + (p3 \div LimbBase)
    IN  <<p1 % LimbBase, p2 % LimbBase, p3 % LimbBase, p4>>

\* the exact product n * mantissa, in limbs
ProductoExacto(n, d) == Normalizar(<<n * d.m[1], n * d.m[2], n * d.m[3], 0>>)

BitLenLimbs(l) ==
    IF l[4] > 0 THEN 3 * LimbBits + BitLen(l[4])
    ELSE IF l[3] > 0 THEN 2 * LimbBits + BitLen(l[3])
    ELSE IF l[2] > 0 THEN LimbBits + BitLen(l[2])
    ELSE BitLen(l[1])

\* IEEE-754 round-to-nearest, ties-to-even, of an exact product to the 53
\* significant bits of a double
RedondearADouble(l) ==
    LET s == BitLenLimbs(l) - 53
    IN  IF s <= 0 THEN l
        ELSE LET resto == l[1] % (2^s)
                 q == l[1] \div (2^s)
                 mitad == 2^(s - 1)
                 arriba == resto > mitad \/ (resto = mitad /\ q % 2 = 1)
             IN  Normalizar(<<(q + (IF arriba THEN 1 ELSE 0)) * (2^s),
                              l[2], l[3], l[4]>>)

\* int * float: the double the multiplication returns (int n >= 0 converts
\* to a double exactly)
FloatMul(n, d) == [m |-> RedondearADouble(ProductoExacto(n, d)), e |-> d.e]

\* round(float) with no ndigits: the nearest integer, ties to the even one
PyRound(x) ==
    LET alto == 2^(x.e - 3 * LimbBits)
        entero == x.m[4] \div alto
        fraccion == x.m[4] % alto
        bajo == x.m[1] # 0 \/ x.m[2] # 0 \/ x.m[3] # 0
        mitad == alto \div 2
    IN  IF fraccion > mitad \/ (fraccion = mitad /\ bajo) THEN entero + 1
        ELSE IF fraccion = mitad THEN entero + (entero % 2)
        ELSE entero

\* ------------------------------ catalog ----------------------------- *\

BASIC == <<"B","A","S","I","C">>
PREMIUM == <<"P","R","E","M","I","U","M">>
FAMILY == <<"F","A","M","I","L","Y">>

CG == <<"C","G">>
LK == <<"L","K">>
EP == <<"E","P">>
SPA == <<"S","P","A">>
CI == <<"C","I">>
CF == <<"C","F">>
GD == <<"G","D">>

\* Membresia(codigo, nombre, precio_base, es_premium, caracteristicas)
Membresia(codigo, nombre, precio_base, es_premium, caracteristicas) ==
    [codigo |-> codigo, nombre |-> nombre, precio_base |-> precio_base,
     es_premium |-> es_premium, caracteristicas |-> caracteristicas]

\* two-entry and three-entry dict literals
Dict2(k1, v1, k2, v2) == [k \in {k1, k2} |-> IF k = k1 THEN v1 ELSE v2]
Dict3(k1, v1, k2, v2, k3, v3) ==
    [k \in {k1, k2, k3} |-> IF k = k1 THEN v1 ELSE IF k = k2 THEN v2 ELSE v3]

MEMBRESIAS ==
    Dict3(BASIC, Membresia(BASIC, "Basica", 50, FALSE, Dict2(CG, 20, LK, 10)),
          PREMIUM, Membresia(PREMIUM, "Premium", 100, TRUE,
                             Dict3(EP, 40, SPA, 30, CI, 35)),
          FAMILY, Membresia(FAMILY, "Familiar", 150, FALSE, Dict2(CF, 30, GD, 25)))

\* dict.get(key): <<value>>, or None
Get(dict, key) == IF key \in DOMAIN dict THEN <<dict[key]>> ELSE None

\* ------------------------- calcular_costos -------------------------- *\

MsgMiembros == <<"El numero de miembros debe ser mayor que 0.">>
MsgCaracteristica(cod) ==
    <<"Caracteristica no disponible para esta membresia: ", cod>>

\* the validation loop: <<cod>> for the first code of the list that the plan
\* lacks, None when the loop ends without raising
RECURSIVE PrimeraInvalida(_, _)
PrimeraInvalida(m, codigos) ==
    IF codigos = <<>> THEN None
    ELSE IF Head(codigos) \notin DOMAIN m.caracteristicas THEN <<Head(codigos)>>
    ELSE PrimeraInvalida(m, Tail(codigos))

\* mutant: the loop assigns (=) where it should accumulate (+=)
CostoExtraUltimoCodigo(m, codigos) ==
    IF codigos = <<>> THEN 0 ELSE m.caracteristicas[codigos[Len(codigos)]]

\* the accumulation loop: costo_extra_por_miembro += caracteristicas[cod]
RECURSIVE CostoExtraPorMiembro(_, _)
CostoExtraPorMiembro(m, codigos) ==
    IF codigos = <<>> THEN 0
    ELSE m.caracteristicas[Head(codigos)] + CostoExtraPorMiembro(m, Tail(codigos))

CostoBase(m, numero_miembros) == m.precio_base * numero_miembros

CostoExtras(m, numero_miembros, codigos) ==
    CostoExtraPorMiembro(m, codigos) * numero_miembros

\* 4. recargo premium: int(round(subtotal * 0.15)) for a premium plan
RecargoPremium(m, subtotal) ==
    IF m.es_premium THEN PyRound(FloatMul(subtotal, Double015)) ELSE 0

\* 5. descuento grupal: int(round(subtotal_con_recargo * 0.10)) from 2 members
DescuentoGrupal(numero_miembros, subtotal_con_recargo) ==
    IF numero_miembros >= 2
    THEN PyRound(FloatMul(subtotal_con_recargo, Double010))
    ELSE 0

\* mutant: the thresholds are taken inclusive (>= for >)
DescuentoEspecialInclusivo(total_parcial) ==
    IF total_parcial >= 400 THEN 50
    ELSE IF total_parcial >= 200 THEN 20
    ELSE 0

\* mutant: the upper threshold is typed 40 for 400
DescuentoEspecialUmbral40(total_parcial) ==
    IF total_parcial > 40 THEN 50
    ELSE IF total_parcial > 200 THEN 20
    ELSE 0

\* mutant: 50 and 20 are taken as percentages of the amount
DescuentoEspecialPorcentaje(total_parcial) ==
    IF total_parcial > 400 THEN (total_parcial * 50) \div 100
    ELSE IF total_parcial > 200 THEN (total_parcial * 20) \div 100
    ELSE 0

\* 6. descuento especial por monto
DescuentoEspecial(total_parcial) ==
    IF total_parcial > 400 THEN 50
    ELSE IF total_parcial > 200 THEN 20
    ELSE 0

\* mutant: the special discount is reported but not subtracted
TotalFinalSinDescuento(total_parcial, descuento_especial) ==
    IF total_parcial < 0 THEN 0 ELSE total_parcial

\* total_final, floored at 0
TotalFinal(total_parcial, descuento_especial) ==
    LET total_final == total_parcial - descuento_especial
    IN  IF total_final < 0 THEN 0 ELSE total_final

\* mutant: the codes are validated before the member count
ValidarCodigosPrimero(m, numero_miembros, codigos) ==
    IF PrimeraInvalida(m, codigos) # None
    THEN MsgCaracteristica(PrimeraInvalida(m, codigos)[1])
    ELSE IF numero_miembros <= 0 THEN MsgMiembros
    ELSE None

\* the guards that raise ValueError, in the order the code tests them: the
\* message raised, None when both pass
Validar(m, numero_miembros, codigos) ==
    IF numero_miembros <= 0 THEN MsgMiembros
    ELSE IF PrimeraInvalida(m, codigos) # None
    THEN MsgCaracteristica(PrimeraInvalida(m, codigos)[1])
    ELSE None

\* calcular_costos(membresia, numero_miembros, codigos_caracteristicas):
\* either raises ValueError(msg) or returns the dict of six fields
calcular_costos(m, numero_miembros, codigos) ==
    IF Validar(m, numero_miembros, codigos) # None
    THEN [raises |-> TRUE, msg |-> Validar(m, numero_miembros, codigos),
          value |-> None]
    ELSE
    LET costo_base == CostoBase(m, numero_miembros)
        costo_extras == CostoExtras(m, numero_miembros, codigos)
        subtotal == costo_base + costo_extras
        recargo_premium == RecargoPremium(m, subtotal)
        subtotal_con_recargo == subtotal + recargo_premium
        descuento_grupal == DescuentoGrupal(numero_miembros, subtotal_con_recargo)
        total_parcial == subtotal_con_recargo - descuento_grupal
        descuento_especial == DescuentoEspecial(total_parcial)
    IN  [raises |-> FALSE, msg |-> None,
         value |-> [costo_base |-> costo_base,
                    costo_extras |-> costo_extras,
                    recargo_premium |-> recargo_premium,
                    descuento_grupal |-> descuento_grupal,
                    descuento_especial |-> descuento_especial,
                    total |-> TotalFinal(total_parcial, descuento_especial)]]

\* --------------------- procesar_plan_membresia ---------------------- *\

\* mutant: the identifier is looked up as given, without upper()
procesar_sin_upper(codigo_membresia, numero_miembros, codigos, confirmar) ==
    IF ~confirmar THEN 0 - 1
    ELSE LET m == Get(MEMBRESIAS, codigo_membresia)
         IN  IF m = None THEN 0 - 1
             ELSE LET r == calcular_costos(m[1], numero_miembros, codigos)
                  IN  IF r.raises THEN 0 - 1
                      ELSE r.value.total

\* procesar_plan_membresia(codigo_membresia, numero_miembros,
\*                         codigos_caracteristicas, confirmar)
procesar_plan_membresia(codigo_membresia, numero_miembros, codigos, confirmar) ==
    IF ~confirmar THEN 0 - 1
    ELSE LET m == Get(MEMBRESIAS, Upper(codigo_membresia))
         IN  IF m = None THEN 0 - 1
             ELSE LET r == calcular_costos(m[1], numero_miembros, codigos)
                  IN  IF r.raises THEN 0 - 1
                      ELSE r.value.total

\* ------------------------------ inputs ------------------------------ *\

Planes == DOMAIN MEMBRESIAS

Miembros == (0 - 1)..MaxMiembros

\* the seven catalog codes and a lower-case spelling of one of them
CodigosEntrada == {CG, LK, EP, SPA, CI, CF, GD, <<"c","g">>}

\* lists that bring total_parcial onto the 400 threshold exactly
ListasLargas == {<<CF, CF, CF, CF, CF, GD, GD, GD, GD>>}

Listas == UNION {[1..k -> CodigosEntrada] : k \in 0..MaxCodigos} \cup ListasLargas

Identificadores ==
    {BASIC, <<"b","a","s","i","c">>, <<"P","r","e","m","i","u","m">>, FAMILY,
     <<"X","Y","Z">>, <<" ","B","A","S","I","C">>}

EntradasMembresia ==
    {<<"b","a","s","i","c">>, <<" ","P","R","E","M","I","U","M"," ">>,
     <<"F","a","m","i","l","y">>, <<"x","y","z">>, <<>>}

EntradasMiembros ==
    {<<"1">>, <<" ","2">>, <<"+","3">>, <<"1","0">>, <<"0">>, <<"-","1">>,
     <<"x","1">>, <<>>}

EntradasCaracteristicas ==
    {<<"0">>, <<>>, <<"c","g",",","l","k">>,
     <<"C","G",","," ","z","z"," ",",","L","K">>,
     <<"e","p",",","s","p","a",",","c","i">>,
     <<"c","f"," ",","," ","g","d">>, <<"G","D",",","G","D">>,
     <<",",",">>, <<"E","P">>}

EntradasConfirmacion ==
    {<<"s">>, <<"S">>, <<" ","s"," ">>, <<"n">>, <<"N">>, <<>>, <<"s","i">>}

\* ------------------------------ API calls --------------------------- *\

Ninguna == [fn |-> "ninguna"]

Init ==
    /\ pc = "inicio"
    /\ llamada = Ninguna
    /\ anterior = Ninguna
    /\ membresia = None
    /\ num_miembros = 0
    /\ codigos_caracteristicas = <<>>
    /\ detalle = None
    /\ confirmar_str = None
    /\ retorno = None
    /\ reintentos = 0

CliSinCambio ==
    UNCHANGED <<membresia, num_miembros, codigos_caracteristicas, detalle,
                confirmar_str, retorno, reintentos>>

\* a caller (the tests) calls calcular_costos on a plan of the catalog
LlamarCalcularCostos ==
    /\ pc = "inicio"
    /\ \E p \in Planes, n \in Miembros, codigos \in Listas :
          llamada' = [fn |-> "calcular_costos", codigo |-> p,
                      numero_miembros |-> n, codigos |-> codigos,
                      confirmar |-> TRUE,
                      ret |-> calcular_costos(MEMBRESIAS[p], n, codigos)]
    /\ anterior' = Ninguna
    /\ pc' = "api"
    /\ CliSinCambio

\* the caller repeats its call of calcular_costos with one member more
RepetirConUnMiembroMas ==
    /\ pc = "api"
    /\ llamada.fn = "calcular_costos"
    /\ llamada.numero_miembros < MaxMiembros
    /\ anterior' = llamada
    /\ llamada' = [llamada EXCEPT
                     !.numero_miembros = @ + 1,
                     !.ret = calcular_costos(MEMBRESIAS[llamada.codigo],
                                             llamada.numero_miembros + 1,
                                             llamada.codigos)]
    /\ UNCHANGED pc
    /\ CliSinCambio

\* a caller calls procesar_plan_membresia
LlamarProcesarPlanMembresia ==
    /\ pc = "inicio"
    /\ \E id \in Identificadores, n \in Miembros, codigos \in Listas,
          confirmar \in BOOLEAN :
          llamada' = [fn |-> "procesar_plan_membresia", codigo |-> id,
                      numero_miembros |-> n, codigos |-> codigos,
                      confirmar |-> confirmar,
                      ret |-> procesar_plan_membresia(id, n, codigos, confirmar)]
    /\ anterior' = Ninguna
    /\ pc' = "api"
    /\ CliSinCambio

\* ------------------------------ ejecutar_cli ------------------------ *\

\* leer_entero_positivo, one pass of its loop: <<valor>> when the input is
\* a positive integer, None when it is asked again
leer_entero_positivo(entrada) ==
    LET valor == ParseInt(entrada)
    IN  IF valor.raises THEN None
        ELSE IF valor.value <= 0 THEN None
        ELSE <<valor.value>>

\* [p.strip().upper() for p in entrada.split(",") if p.strip() != ""]
Partes(entrada) ==
    LET piezas == SelectSeq(Split(entrada), LAMBDA p : Strip(p) # <<>>)
    IN  [i \in DOMAIN piezas |-> Upper(Strip(piezas[i]))]

\* mutant: the codes typed are returned without the filter on the plan
leer_codigos_sin_filtrar(m, linea) ==
    LET entrada == Strip(linea)
    IN  IF DOMAIN m.caracteristicas = {} THEN <<>>
        ELSE IF entrada = <<"0">> \/ entrada = <<>> THEN <<>>
        ELSE Partes(entrada)

\* leer_codigos_caracteristicas, given the line the user types
leer_codigos_caracteristicas(m, linea) ==
    LET entrada == Strip(linea)
    IN  IF DOMAIN m.caracteristicas = {} THEN <<>>
        ELSE IF entrada = <<"0">> \/ entrada = <<>> THEN <<>>
        ELSE SelectSeq(Partes(entrada),
                       LAMBDA cod : cod \in DOMAIN m.caracteristicas)

ApiSinCambio == UNCHANGED <<llamada, anterior>>

\* the program is started from the console
CliInicio ==
    /\ pc = "inicio"
    /\ pc' = "cli_membresia"
    /\ ApiSinCambio
    /\ CliSinCambio

\* 1. the answer to the plan prompt
CliEntradaMembresia ==
    /\ pc = "cli_membresia"
    /\ \E linea \in EntradasMembresia :
          LET cod == Upper(Strip(linea))
              m == Get(MEMBRESIAS, cod)
          IN  IF m = None
              THEN /\ reintentos < MaxReintentos
                   /\ reintentos' = reintentos + 1
                   /\ UNCHANGED <<pc, membresia>>
              ELSE /\ membresia' = m[1]
                   /\ pc' = "cli_miembros"
                   /\ UNCHANGED reintentos
    /\ UNCHANGED <<num_miembros, codigos_caracteristicas, detalle,
                   confirmar_str, retorno>>
    /\ ApiSinCambio

\* 2. the answer to the member-count prompt
CliEntradaMiembros ==
    /\ pc = "cli_miembros"
    /\ \E linea \in EntradasMiembros :
          LET valor == leer_entero_positivo(linea)
          IN  IF valor = None
              THEN /\ reintentos < MaxReintentos
                   /\ reintentos' = reintentos + 1
                   /\ UNCHANGED <<pc, num_miembros>>
              ELSE /\ num_miembros' = valor[1]
                   /\ pc' = "cli_caracteristicas"
                   /\ UNCHANGED reintentos
    /\ UNCHANGED <<membresia, codigos_caracteristicas, detalle,
                   confirmar_str, retorno>>
    /\ ApiSinCambio

\* 3. and 4. the answer to the features prompt, then the pricing
CliEntradaCaracteristicas ==
    /\ pc = "cli_caracteristicas"
    /\ \E linea \in EntradasCaracteristicas :
          LET codigos == leer_codigos_caracteristicas(membresia, linea)
              r == calcular_costos(membresia, num_miembros, codigos)
          IN  /\ codigos_caracteristicas' = codigos
              /\ detalle' = r
              /\ IF r.raises
                 THEN /\ retorno' = <<0 - 1>>
                      /\ pc' = "cli_fin"
                 ELSE /\ pc' = "cli_confirmar"
                      /\ UNCHANGED retorno
    /\ UNCHANGED <<membresia, num_miembros, confirmar_str, reintentos>>
    /\ ApiSinCambio

\* 5. the answer to the confirmation prompt
CliEntradaConfirmacion ==
    /\ pc = "cli_confirmar"
    /\ \E linea \in EntradasConfirmacion :
          /\ confirmar_str' = <<Upper(Strip(linea))>>
          /\ retorno' = IF Upper(Strip(linea)) # <<"S">> THEN <<0 - 1>>
                        ELSE <<detalle.value.total>>
    /\ pc' = "cli_fin"
    /\ UNCHANGED <<membresia, num_miembros, codigos_caracteristicas, detalle,
                   reintentos>>
    /\ ApiSinCambio

Next ==
    \/ LlamarCalcularCostos
    \/ RepetirConUnMiembroMas
    \/ LlamarProcesarPlanMembresia
    \/ CliInicio
    \/ CliEntradaMembresia
    \/ CliEntradaMiembros
    \/ CliEntradaCaracteristicas
    \/ CliEntradaConfirmacion

Spec == Init /\ [][Next]_vars

\* ------------------------------ properties -------------------------- *\

\* calcular_costos was called and returned a breakdown
Calculada == llamada.fn = "calcular_costos" /\ ~llamada.ret.raises

\* procesar_plan_membresia was called
Procesada == llamada.fn = "procesar_plan_membresia"

\* some code of the list is not a feature of plan p
AlgunaInvalida(p, codigos) ==
    \E i \in DOMAIN codigos : codigos[i] \notin DOMAIN MEMBRESIAS[p].caracteristicas

\* num / den to the nearest integer, ties away from zero (num, den > 0)
MitadAlejaDeCero(num, den) == (2 * num + den) \div (2 * den)

\* num / den to the nearest integer, ties to the even integer (num, den > 0)
MitadAlPar(num, den) ==
    LET q == num \div den
        r == num % den
    IN  IF 2 * r > den \/ (2 * r = den /\ q % 2 = 1) THEN q + 1 ELSE q

\* what the code returns in both percentage fields: the nearest unit, ties to
\* the even one (Python's round), on the exact 15% and 10%
RedondeoDelCodigo ==
    Calculada =>
        LET d == llamada.ret.value
        IN  /\ d.recargo_premium =
                 IF MEMBRESIAS[llamada.codigo].es_premium
                 THEN MitadAlPar(15 * (d.costo_base + d.costo_extras), 100)
                 ELSE 0
            /\ d.descuento_grupal =
                 IF llamada.numero_miembros >= 2
                 THEN MitadAlPar(
                          10 * (d.costo_base + d.costo_extras + d.recargo_premium),
                          100)
                 ELSE 0

\* how many entries of the list are the code cod
Veces(cod, codigos) == Cardinality({i \in DOMAIN codigos : codigos[i] = cod})

RECURSIVE SumaSobre(_, _, _)
SumaSobre(S, precios, codigos) ==
    IF S = {} THEN 0
    ELSE LET c == CHOOSE x \in S : TRUE
         IN  precios[c] * Veces(c, codigos) + SumaSobre(S \ {c}, precios, codigos)

\* the amount the special discount is decided on, from the returned fields
Parcial(d) == d.costo_base + d.costo_extras + d.recargo_premium - d.descuento_grupal

\* C1: procesar_plan_membresia returns -1 exactly when confirmar is false, the
\* upper-cased identifier is not in the catalog, numero_miembros <= 0 or some
\* code is not a feature of the plan; otherwise it returns the total that
\* calcular_costos computes for the same plan, member count and list.
C1_ProcesarMenosUnoExactamente ==
    Procesada =>
        LET conocida == Upper(llamada.codigo) \in Planes
            invalida == \/ ~llamada.confirmar
                        \/ ~conocida
                        \/ llamada.numero_miembros <= 0
                        \/ AlgunaInvalida(Upper(llamada.codigo), llamada.codigos)
        IN  /\ (llamada.ret = 0 - 1) <=> invalida
            /\ ~invalida =>
                 llamada.ret = calcular_costos(MEMBRESIAS[Upper(llamada.codigo)],
                                               llamada.numero_miembros,
                                               llamada.codigos).value.total
            /\ ~llamada.confirmar => llamada.ret = 0 - 1

\* a lower-case identifier is resolved and priced
C1_Witness ==
    /\ Procesada
    /\ llamada.codigo = <<"b","a","s","i","c">>
    /\ llamada.numero_miembros = 2
    /\ llamada.codigos = <<CG, LK>>
    /\ llamada.confirmar
    /\ llamada.ret = 144

\* C2: recargo_premium is 15% of subtotal (costo_base + costo_extras) rounded
\* to the nearest unit with ties away from zero for a premium plan, and 0 for
\* a plan that is not premium.
C2_RecargoMitadAlejaDeCero ==
    Calculada =>
        LET d == llamada.ret.value
        IN  d.recargo_premium =
              IF MEMBRESIAS[llamada.codigo].es_premium
              THEN MitadAlejaDeCero(15 * (d.costo_base + d.costo_extras), 100)
              ELSE 0

\* C3: descuento_grupal is 10% of subtotal + recargo_premium rounded to the
\* nearest unit with ties away from zero from 2 members on, and 0 for 1 member.
C3_DescuentoMitadAlejaDeCero ==
    Calculada =>
        LET d == llamada.ret.value
        IN  d.descuento_grupal =
              IF llamada.numero_miembros >= 2
              THEN MitadAlejaDeCero(
                       10 * (d.costo_base + d.costo_extras + d.recargo_premium), 100)
              ELSE 0

\* C4: descuento_especial is a single tier decided on partial = subtotal +
\* recargo_premium - descuento_grupal: 50 above 400, 20 above 200 up to 400,
\* 0 up to 200; never any other value.
C4_DescuentoEspecialUnSoloTramo ==
    Calculada =>
        LET d == llamada.ret.value
        IN  /\ d.descuento_especial \in {0, 20, 50}
            /\ d.descuento_especial = 50 <=> Parcial(d) > 400
            /\ d.descuento_especial = 20 <=> (Parcial(d) > 200 /\ Parcial(d) <= 400)
            /\ d.descuento_especial = 0 <=> Parcial(d) <= 200

\* partial is exactly 400 and the discount is 20
C4_Witness ==
    /\ Calculada
    /\ Parcial(llamada.ret.value) = 400
    /\ llamada.ret.value.descuento_especial = 20

\* C5: the six fields of every breakdown are non-negative integers and
\* total = costo_base + costo_extras + recargo_premium - descuento_grupal
\*         - descuento_especial.
C5_DesgloseSuma ==
    Calculada =>
        LET d == llamada.ret.value
        IN  /\ d.costo_base \in Nat
            /\ d.costo_extras \in Nat
            /\ d.recargo_premium \in Nat
            /\ d.descuento_grupal \in Nat
            /\ d.descuento_especial \in Nat
            /\ d.total \in Nat
            /\ d.total = d.costo_base + d.costo_extras + d.recargo_premium
                         - d.descuento_grupal - d.descuento_especial

\* a breakdown where surcharge, group discount and special discount all act
C5_Witness ==
    /\ Calculada
    /\ llamada.ret.value.recargo_premium > 0
    /\ llamada.ret.value.descuento_grupal > 0
    /\ llamada.ret.value.descuento_especial > 0

\* C6: costo_base = precio_base * n and costo_extras = n * (sum of the feature
\* prices over the entries of the list, counted with multiplicity).
C6_BaseYExtrasConMultiplicidad ==
    Calculada =>
        LET d == llamada.ret.value
            m == MEMBRESIAS[llamada.codigo]
        IN  /\ d.costo_base = m.precio_base * llamada.numero_miembros
            /\ d.costo_extras =
                 llamada.numero_miembros *
                 SumaSobre(DOMAIN m.caracteristicas, m.caracteristicas,
                           llamada.codigos)
            /\ llamada.codigos = <<>> => d.costo_extras = 0

\* a code listed twice is charged twice per member
C6_Witness ==
    /\ Calculada
    /\ llamada.codigo = BASIC
    /\ llamada.numero_miembros = 2
    /\ llamada.codigos = <<CG, CG>>
    /\ llamada.ret.value.costo_extras = 80

\* C7: a confirmed request for a known plan with member count >= 1 and a
\* valid list returns a strictly positive integer, and the floor of a
\* negative total at 0 in calcular_costos is never taken.
C7_TotalEstrictamentePositivo ==
    /\ (/\ Procesada
        /\ llamada.confirmar
        /\ Upper(llamada.codigo) \in Planes
        /\ llamada.numero_miembros >= 1
        /\ ~AlgunaInvalida(Upper(llamada.codigo), llamada.codigos))
       => llamada.ret > 0
    /\ Calculada =>
         /\ llamada.ret.value.total > 0
         /\ Parcial(llamada.ret.value) - llamada.ret.value.descuento_especial > 0

\* the cheapest successful request
C7_Witness ==
    /\ Procesada
    /\ llamada.confirmar
    /\ llamada.codigo = BASIC
    /\ llamada.numero_miembros = 1
    /\ llamada.codigos = <<>>
    /\ llamada.ret = 50

\* C8: with the plan and the list fixed, the total does not decrease when the
\* member count grows by one.
C8_TotalMonotonoEnMiembros ==
    (/\ anterior.fn = "calcular_costos"
     /\ ~anterior.ret.raises
     /\ Calculada)
    => /\ llamada.codigo = anterior.codigo
       /\ llamada.codigos = anterior.codigos
       /\ llamada.numero_miembros = anterior.numero_miembros + 1
       /\ llamada.ret.value.total >= anterior.ret.value.total

\* the step from 1 to 2 members, where the group discount starts and the
\* special discount goes from none to 20
C8_Witness ==
    /\ anterior.fn = "calcular_costos"
    /\ Calculada
    /\ anterior.numero_miembros = 1
    /\ ~anterior.ret.raises
    /\ anterior.ret.value.descuento_especial = 0
    /\ llamada.ret.value.descuento_grupal > 0
    /\ llamada.ret.value.descuento_especial = 20

\* C9: calcular_costos raises exactly when numero_miembros <= 0 or some code
\* is not a feature of the plan; the two failures carry different messages,
\* and with numero_miembros <= 0 the member-count one is raised whatever the
\* list holds.
C9_FallaExactamenteYDistinguible ==
    llamada.fn = "calcular_costos" =>
        LET r == llamada.ret
            malos == llamada.numero_miembros <= 0
            rara == AlgunaInvalida(llamada.codigo, llamada.codigos)
        IN  /\ r.raises <=> (malos \/ rara)
            /\ r.raises => r.value = None
            /\ malos => r.msg = MsgMiembros
            /\ (~malos /\ rara) =>
                 /\ r.msg # MsgMiembros
                 /\ \E i \in DOMAIN llamada.codigos :
                      /\ llamada.codigos[i]
                           \notin DOMAIN MEMBRESIAS[llamada.codigo].caracteristicas
                      /\ r.msg = MsgCaracteristica(llamada.codigos[i])

\* no members and EP against BASIC: the member-count failure is the one raised
C9_Witness ==
    /\ llamada.fn = "calcular_costos"
    /\ llamada.codigo = BASIC
    /\ llamada.numero_miembros = 0
    /\ llamada.codigos = <<EP>>
    /\ llamada.ret.raises
    /\ llamada.ret.msg = MsgMiembros

\* C10: in ejecutar_cli the call of calcular_costos gets a catalog plan, a
\* member count > 0 and only codes of that plan, so it never raises;
\* ejecutar_cli returns -1 only when the confirmation is not S, and otherwise
\* the total procesar_plan_membresia returns for the same plan, member count
\* and list with confirmar = true.
C10_CliNuncaFallaYCoincide ==
    /\ pc \in {"cli_confirmar", "cli_fin"} =>
         /\ membresia \in {MEMBRESIAS[p] : p \in Planes}
         /\ num_miembros > 0
         /\ \A i \in DOMAIN codigos_caracteristicas :
              codigos_caracteristicas[i] \in DOMAIN membresia.caracteristicas
         /\ ~detalle.raises
    /\ pc = "cli_fin" =>
         /\ retorno # None
         /\ retorno = <<0 - 1>> <=> confirmar_str # <<<<"S">>>>
         /\ confirmar_str = <<<<"S">>>> =>
              retorno[1] = procesar_plan_membresia(membresia.codigo, num_miembros,
                                                   codigos_caracteristicas, TRUE)

\* a confirmed run after a rejected input
C10_Witness ==
    /\ pc = "cli_fin"
    /\ reintentos > 0
    /\ membresia.codigo = BASIC
    /\ num_miembros = 2
    /\ codigos_caracteristicas = <<CG, LK>>
    /\ confirmar_str = <<<<"S">>>>
    /\ retorno = <<144>>

====
